---- MODULE Spec2Model ----
(* Model of the lead-collection flow of the FAQ chatbot widget              *)
(* (src/static/widget.js): ChatbotWidget.sendMessage, handleLeadInput,      *)
(* submitLead, isValidEmail, and the continuations that run when a fetch    *)
(* resolves or rejects.  Texts are TLA+ strings; the string functions the   *)
(* code uses (trim, toLowerCase, includes, the e-mail regular expression,   *)
(* slice/map/join) are computed character by character.                     *)
EXTENDS Integers, Sequences, FiniteSets, TLC

VARIABLES
    leadCollectionMode,   \* ChatbotWidget.leadCollectionMode
    leadData,             \* ChatbotWidget.leadData: a function from the field names that are set
    conversationHistory,  \* ChatbotWidget.conversationHistory: Seq of [role, content]
    emitted,              \* the messages the last step appended to #chatbot-messages
    typing,               \* number of #typing-indicator elements in the DOM
    pending,              \* the fetch() calls not settled yet, in the order issued
    timers,               \* number of setTimeout callbacks scheduled and not yet run
    fetches,              \* number of fetch() calls issued so far
    scenario,             \* observer: how many inputs of Scenario A have been fed so far
    embedLoaded,          \* embed.js: window.ChatbotEmbedLoaded
    readyState,           \* embed.js: document.readyState, "loading" or "complete"
    listeners,            \* embed.js: the DOMContentLoaded listeners registered, each with its closure
    containers,           \* embed.js: number of #chatbot-container elements appended to the body
    loading,              \* embed.js: the widget.js script elements appended and not yet loaded
    initCalls,            \* embed.js: the options of every ChatbotWidget.init call made
    executions,           \* embed.js: how many times the loader script has been executed
    warnings,             \* embed.js: console.warn calls
    errors                \* embed.js: the messages of the console.error calls

widgetVars == <<leadCollectionMode, leadData, conversationHistory, emitted, typing,
                pending, timers, fetches, scenario>>

embedVars == <<embedLoaded, readyState, listeners, containers, loading, initCalls,
               executions, warnings, errors>>

vars == <<leadCollectionMode, leadData, conversationHistory, emitted, typing,
          pending, timers, fetches, scenario,
          embedLoaded, readyState, listeners, containers, loading, initCalls,
          executions, warnings, errors>>

-----------------------------------------------------------------------------
(* Bounds of the model *)

MaxHistory == 5     \* inputs are typed while the history is shorter than this
MaxFetches == 3     \* fetch() calls issued in one behaviour
MaxPending == 2     \* fetch() calls in flight at the same time (Spec)

(* SpecSequential, where Scenario A needs six history entries *)
MaxSequentialHistory == 6
MaxSequentialFetches == 3

(* SpecEmbed: how many times the loader script is executed on the page *)
MaxExecutions == 6

-----------------------------------------------------------------------------
(* Strings *)

UpperChars == "ABCDEFGHIJKLMNOPQRSTUVWXYZ"
LowerChars == "abcdefghijklmnopqrstuvwxyz"

CharAt(s, i) == SubSeq(s, i, i)

IsSpace(c) == c \in {" ", "\t", "\n", "\r"}

UpperSet == { CharAt(UpperChars, i) : i \in 1..Len(UpperChars) }

LowerOf ==
    [c \in UpperSet |->
        CharAt(LowerChars, CHOOSE i \in 1..Len(UpperChars) : CharAt(UpperChars, i) = c)]

lowerChar(c) == IF c \in UpperSet THEN LowerOf[c] ELSE c

RECURSIVE toLowerCase(_)
toLowerCase(s) ==
    IF s = "" THEN "" ELSE lowerChar(CharAt(s, 1)) \o toLowerCase(Tail(s))

RECURSIVE trimStart(_)
trimStart(s) ==
    IF s # "" /\ IsSpace(CharAt(s, 1)) THEN trimStart(Tail(s)) ELSE s

RECURSIVE trimEnd(_)
trimEnd(s) ==
    IF s # "" /\ IsSpace(CharAt(s, Len(s)))
    THEN trimEnd(SubSeq(s, 1, Len(s) - 1))
    ELSE s

trim(s) == trimEnd(trimStart(s))

includes(s, sub) ==
    \E i \in 1..(Len(s) - Len(sub) + 1) : SubSeq(s, i, i + Len(sub) - 1) = sub

(* /^[^\s@]+@[^\s@]+\.[^\s@]+$/ : some "@" at position i and some "." at     *)
(* position j split the string into three non-empty runs of characters that  *)
(* are neither white space nor "@".                                          *)
NotSpaceOrAt(s, lo, hi) ==
    \A k \in lo..hi : ~IsSpace(CharAt(s, k)) /\ CharAt(s, k) # "@"

RegexTest(email) ==
    \E i \in 2..(Len(email) - 3) :
        /\ CharAt(email, i) = "@"
        /\ NotSpaceOrAt(email, 1, i - 1)
        /\ \E j \in (i + 2)..(Len(email) - 1) :
              /\ CharAt(email, j) = "."
              /\ NotSpaceOrAt(email, i + 1, j - 1)
              /\ NotSpaceOrAt(email, j + 1, Len(email))

(* Mutant: any text with an "@" passes *)
isValidEmailLoose(email) == includes(email, "@")

isValidEmail(email) == RegexTest(email)

-----------------------------------------------------------------------------
(* Values *)

Undefined == "undefined"          \* a property that is absent (JavaScript undefined)
ClientId == "default"             \* ChatbotWidget.clientId
SourceUrl == "https://host.example/page"   \* window.location.href

EmptyData == <<>>                 \* leadData = {}

Truthy(d, f) == f \in DOMAIN d /\ d[f] # ""          \* d.f is truthy
Field(d, f) == IF f \in DOMAIN d THEN d[f] ELSE Undefined
With(d, f, v) == [g \in (DOMAIN d) \cup {f} |-> IF g = f THEN v ELSE d[g]]

UserEntry(text) == [role |-> "user", content |-> text]
BotEntry(text) == [role |-> "bot", content |-> text]
UserMessage(text) == [cls |-> "user", text |-> text]
BotMessage(text) == [cls |-> "bot", text |-> text]

(* Bot texts of widget.js *)
CancelAck == "No problem! Lead collection cancelled. Feel free to ask me any questions about our services!"
PhonePromptPrefilled == "Great! And your phone number? (Type 'skip' if you'd prefer not to share)"
EmailPrompt == "Thanks! What's your email address?"
PhonePrompt == "Perfect! And your phone number? (Type 'skip' to leave blank)"
EmailRetryPrompt == "That doesn't look like a valid email. Can you try again? (Or type 'cancel' to go back to chatting)"
CompanyPromptSkipped == "No worries! What company do you represent? (Type 'skip' to leave blank)"
CompanyPrompt == "Thanks! What company do you represent? (Type 'skip' to leave blank)"
MessagePromptSkipped == "Got it! Anything else you'd like to tell us? (Or type 'skip' to finish)"
MessagePrompt == "Excellent! Anything else you'd like to tell us? (Or type 'skip' to finish)"
ChatFailedText == "Sorry, something went wrong. Please try again."
ChatThrewText == "Sorry, I'm having trouble connecting. Please try again."
ForwardThrewText == "Sorry, something went wrong. Please try again."
LeadFailedText == "Sorry, there was an error saving your information. Please try again or email us directly."
LeadThrewText == "Sorry, something went wrong. Please try emailing us directly."

(* What the server may answer.  The texts are the server's; one of each is enough. *)
ReplyText == "We open at nine."
ConfirmText == "Thank you, we will be in touch."
ExtractedEmail == "pre@x"
ContactInfo == [email |-> "sales@x.io", phone |-> "555-0100"]

ChatResponses ==
    { [success |-> TRUE, response |-> ReplyText, trigger_lead_collection |-> FALSE,
       extracted_email |-> Undefined],
      [success |-> TRUE, response |-> Undefined, trigger_lead_collection |-> TRUE,
       extracted_email |-> Undefined],
      [success |-> TRUE, response |-> Undefined, trigger_lead_collection |-> TRUE,
       extracted_email |-> ExtractedEmail],
      [success |-> FALSE, response |-> Undefined, trigger_lead_collection |-> FALSE,
       extracted_email |-> Undefined] }

LeadResponses ==
    { [success |-> TRUE, message |-> ConfirmText, has_contact_info |-> FALSE,
       contact_info |-> ContactInfo],
      [success |-> TRUE, message |-> ConfirmText, has_contact_info |-> TRUE,
       contact_info |-> ContactInfo],
      [success |-> FALSE, message |-> Undefined, has_contact_info |-> FALSE,
       contact_info |-> ContactInfo] }

ContactText(info) ==
    "You can also reach us at:\n" \o info.email \o "\n" \o info.phone

(* What the user may type into #chatbot-input-field *)
Inputs ==
    { "j@x", "jane@x.com", "skip", "What are your hours?", " " }

ScenarioInputs ==
    { "Jane Doe", "jane@x.com", "skip", "Acme", "What are your hours?" }

TokenInputs ==
    { "Jo@X.io", " Skip", "Nevermind", "BACK ", "cancel", "Who?" }

-----------------------------------------------------------------------------
(* Request bodies *)

ChatBody(message, history) ==
    [message |-> message, client_id |-> ClientId,
     context |-> [conversation_history |-> history]]

RECURSIVE join(_, _)
join(texts, sep) ==
    IF Len(texts) = 0 THEN ""
    ELSE IF Len(texts) = 1 THEN texts[1]
    ELSE texts[1] \o sep \o join(Tail(texts), sep)

slice(seq, n) ==                  \* seq.slice(-n)
    IF Len(seq) <= n THEN seq ELSE SubSeq(seq, Len(seq) - n + 1, Len(seq))

SnippetLength == 5

(* Mutant: the snippet is built from the whole history *)
SnippetOfAll(history) ==
    join([i \in 1..Len(history) |-> history[i].content], " | ")

Snippet(history) ==
    LET last == slice(history, SnippetLength)
    IN  join([i \in 1..Len(last) |-> last[i].content], " | ")

SkippedToEmpty(d, f) ==
    IF Truthy(d, f) /\ d[f] # "skipped" THEN d[f] ELSE ""

LeadBody(d, history) ==
    [client_id |-> ClientId,
     name |-> Field(d, "name"),
     email |-> Field(d, "email"),
     phone |-> SkippedToEmpty(d, "phone"),
     company |-> SkippedToEmpty(d, "company"),
     message |-> IF Truthy(d, "message") THEN d["message"] ELSE "",
     conversation_snippet |-> Snippet(history),
     source_url |-> SourceUrl]

ChatRequest(origin, message, history) ==
    [url |-> "/api/chat", origin |-> origin, body |-> ChatBody(message, history)]

LeadRequest(d, history) ==
    [url |-> "/api/lead", origin |-> "submitLead", body |-> LeadBody(d, history)]

-----------------------------------------------------------------------------
(* The session *)

Init ==
    /\ leadCollectionMode = FALSE
    /\ leadData = EmptyData
    /\ conversationHistory = <<>>
    /\ emitted = <<>>
    /\ typing = 0
    /\ pending = <<>>
    /\ timers = 0
    /\ fetches = 0
    /\ scenario = 0
    /\ embedLoaded = FALSE
    /\ readyState = "complete"
    /\ listeners = <<>>
    /\ containers = 0
    /\ loading = <<>>
    /\ initCalls = <<>>
    /\ executions = 0
    /\ warnings = 0
    /\ errors = <<>>

hideTyping == typing' = IF typing > 0 THEN typing - 1 ELSE 0

(* startLeadCollection(prefilledEmail): activates the session; a pre-filled  *)
(* e-mail becomes the session's email field.                                 *)
startLeadCollection(prefilledEmail) ==
    /\ leadCollectionMode' = TRUE
    /\ leadData' = IF prefilledEmail \notin {Undefined, ""}
                   THEN With(EmptyData, "email", prefilledEmail)
                   ELSE EmptyData

(* Mutant: "back" is not recognised *)
IsCancelTokenNoBack(messageLower) ==
    messageLower \in {"cancel", "nevermind", "skip"}

IsCancelToken(messageLower) ==
    messageLower \in {"cancel", "nevermind", "skip", "back"}

questionIndicators ==
    <<"what", "how", "when", "where", "why", "who", "can", "do you", "tell me", "?">>

isQuestion(messageLower) ==
    \E k \in 1..Len(questionIndicators) : includes(messageLower, questionIndicators[k])

(* Mutant: a question aborts the session at every step *)
IsQuestionAbortAtAnyStep(messageLower, d) == isQuestion(messageLower)

(* isQuestion && !this.leadData.name *)
IsQuestionAbort(messageLower, d) == isQuestion(messageLower) /\ ~Truthy(d, "name")

IsSkip(messageLower) == messageLower = "skip"

(* Mutant: the company is never asked for *)
PendingStepNoCompany(d) ==
    IF ~Truthy(d, "name") THEN "name"
    ELSE IF ~Truthy(d, "email") THEN "email"
    ELSE IF ~Truthy(d, "phone") /\ Field(d, "phone") # "skipped" THEN "phone"
    ELSE "message"

(* Mutant: a pre-filled e-mail is asked for again *)
PendingStepAsksEmail(d) ==
    IF ~Truthy(d, "name") THEN "name"
    ELSE IF ~Truthy(d, "email") \/ (Field(d, "email") = ExtractedEmail /\ "phone" \notin DOMAIN d)
    THEN "email"
    ELSE IF ~Truthy(d, "phone") /\ Field(d, "phone") # "skipped" THEN "phone"
    ELSE IF ~Truthy(d, "company") /\ Field(d, "company") # "skipped" THEN "company"
    ELSE "message"

(* The field handleLeadInput is waiting for, from which fields are set *)
PendingStep(d) ==
    IF ~Truthy(d, "name") THEN "name"
    ELSE IF ~Truthy(d, "email") THEN "email"
    ELSE IF ~Truthy(d, "phone") /\ Field(d, "phone") # "skipped" THEN "phone"
    ELSE IF ~Truthy(d, "company") /\ Field(d, "company") # "skipped" THEN "company"
    ELSE "message"

(* Stored values *)
NameValue(message) == message
EmailValueLower(message) == toLowerCase(message)     \* mutant: the address is normalised
EmailValue(message) == message
PhoneValue(message, messageLower) == IF IsSkip(messageLower) THEN "skipped" ELSE message
CompanyValue(message, messageLower) == IF IsSkip(messageLower) THEN "skipped" ELSE message
MessageValue(message, messageLower) == IF IsSkip(messageLower) THEN "" ELSE message

(* submitLead up to its first await, with leadData already holding d *)
submitLead(d, history, shown) ==
    /\ leadCollectionMode' = leadCollectionMode
    /\ leadData' = d
    /\ conversationHistory' = history
    /\ emitted' = shown
    /\ typing' = typing + 1
    /\ pending' = Append(pending, LeadRequest(d, history))
    /\ fetches' = fetches + 1
    /\ timers' = timers

(* Mutant: the question abort forgets to leave lead-collection mode *)
ForwardQuestionStaysActive(message, history, shown) ==
    LET h == Append(history, UserEntry(message))
    IN  /\ leadCollectionMode' = leadCollectionMode
        /\ leadData' = EmptyData
        /\ conversationHistory' = h
        /\ emitted' = shown
        /\ typing' = typing + 1
        /\ pending' = Append(pending, ChatRequest("handleLeadInput", message, h))
        /\ fetches' = fetches + 1
        /\ timers' = timers

(* The question abort of handleLeadInput up to its first await *)
ForwardQuestion(message, history, shown) ==
    LET h == Append(history, UserEntry(message))
    IN  /\ leadCollectionMode' = FALSE
        /\ leadData' = EmptyData
        /\ conversationHistory' = h
        /\ emitted' = shown
        /\ typing' = typing + 1
        /\ pending' = Append(pending, ChatRequest("handleLeadInput", message, h))
        /\ fetches' = fetches + 1
        /\ timers' = timers

(* A step of handleLeadInput that sets the session and emits one bot message *)
Reply(mode, d, text, history, shown) ==
    /\ leadCollectionMode' = mode
    /\ leadData' = d
    /\ conversationHistory' = history
    /\ emitted' = Append(shown, BotMessage(text))
    /\ UNCHANGED <<typing, pending, timers, fetches>>

(* Mutant: a cancellation leaves lead-collection mode but keeps the fields *)
CancelKeepsData(history, shown) == Reply(FALSE, leadData, CancelAck, history, shown)

(* The cancellation branch of handleLeadInput *)
Cancel(history, shown) == Reply(FALSE, EmptyData, CancelAck, history, shown)

(* handleLeadInput(message) up to its first await; history is the history    *)
(* and shown the messages as sendMessage left them.                          *)
handleLeadInput(message, history, shown) ==
    LET messageLower == trim(toLowerCase(message))
        step == PendingStep(leadData)
    IN  IF IsCancelToken(messageLower)
        THEN Cancel(history, shown)
        ELSE IF IsQuestionAbort(messageLower, leadData)
        THEN ForwardQuestion(message, history, shown)
        ELSE IF step = "name"
        THEN Reply(leadCollectionMode, With(leadData, "name", NameValue(message)),
                   IF Truthy(leadData, "email") THEN PhonePromptPrefilled ELSE EmailPrompt,
                   history, shown)
        ELSE IF step = "email"
        THEN IF isValidEmail(message)
             THEN Reply(leadCollectionMode, With(leadData, "email", EmailValue(message)),
                        PhonePrompt, history, shown)
             ELSE Reply(leadCollectionMode, leadData, EmailRetryPrompt, history, shown)
        ELSE IF step = "phone"
        THEN Reply(leadCollectionMode,
                   With(leadData, "phone", PhoneValue(message, messageLower)),
                   IF IsSkip(messageLower) THEN CompanyPromptSkipped ELSE CompanyPrompt,
                   history, shown)
        ELSE IF step = "company"
        THEN Reply(leadCollectionMode,
                   With(leadData, "company", CompanyValue(message, messageLower)),
                   IF IsSkip(messageLower) THEN MessagePromptSkipped ELSE MessagePrompt,
                   history, shown)
        ELSE submitLead(With(leadData, "message", MessageValue(message, messageLower)),
                        history, shown)

(* Scenario A of the specification, and its observer: scenario counts the    *)
(* inputs of ScenarioA typed so far, the first into a fresh active session   *)
(* and every one while no request and no timer was outstanding.              *)
ScenarioA == <<"Jane Doe", "jane@x.com", "skip", "Acme", "skip">>

Quiet == Len(pending) = 0 /\ timers = 0

FreshActive == leadCollectionMode /\ leadData = EmptyData

Observe(message) ==
    IF Quiet /\ FreshActive /\ message = ScenarioA[1] THEN 1
    ELSE IF Quiet /\ scenario \in 1..(Len(ScenarioA) - 1) /\ message = ScenarioA[scenario + 1]
    THEN scenario + 1
    ELSE 0

(* sendMessage() with the input field holding raw, up to its first await *)
SendMessage(raw) ==
    LET message == trim(raw)
        history == Append(conversationHistory, UserEntry(message))
        shown == <<UserMessage(message)>>
    IN  IF message = ""
        THEN UNCHANGED vars
        ELSE /\ scenario' = Observe(message)
             /\ UNCHANGED embedVars
             /\ IF leadCollectionMode
                THEN handleLeadInput(message, history, shown)
                ELSE /\ conversationHistory' = history
                     /\ emitted' = shown
                     /\ typing' = typing + 1
                     /\ pending' = Append(pending, ChatRequest("sendMessage", message, history))
                     /\ fetches' = fetches + 1
                     /\ UNCHANGED <<leadCollectionMode, leadData, timers>>

-----------------------------------------------------------------------------
(* Continuations: what runs when a fetch settles *)

Slots == 1..Len(pending)

IsPending(i, origin) == i \in Slots /\ pending[i].origin = origin

Remove(seq, i) == SubSeq(seq, 1, i - 1) \o SubSeq(seq, i + 1, Len(seq))

Settled(i) ==
    /\ pending' = Remove(pending, i)
    /\ hideTyping
    /\ UNCHANGED <<fetches, scenario>>
    /\ UNCHANGED embedVars

(* Mutant: lead collection starts only when an email was extracted *)
TriggersLeadWithEmail(data) ==
    data.trigger_lead_collection /\ data.extracted_email # Undefined

TriggersLead(data) == data.trigger_lead_collection

(* A chat answer with success = true, in sendMessage and in handleLeadInput alike *)
OnChatSuccess(data) ==
    IF TriggersLead(data)
    THEN /\ startLeadCollection(data.extracted_email)
         /\ emitted' = <<>>
         /\ UNCHANGED conversationHistory
    ELSE /\ emitted' = <<BotMessage(data.response)>>
         /\ conversationHistory' = Append(conversationHistory, BotEntry(data.response))
         /\ UNCHANGED <<leadCollectionMode, leadData>>

(* Mutant: an error message also puts the widget into lead-collection mode *)
SayAndActivate(text) ==
    /\ emitted' = <<BotMessage(text)>>
    /\ leadCollectionMode' = TRUE
    /\ UNCHANGED <<leadData, conversationHistory>>

Say(text) ==
    /\ emitted' = <<BotMessage(text)>>
    /\ UNCHANGED <<leadCollectionMode, leadData, conversationHistory>>

SayNothing ==
    /\ emitted' = <<>>
    /\ UNCHANGED <<leadCollectionMode, leadData, conversationHistory>>

(* sendMessage after await fetch / await response.json() *)
ChatResolve(i, data) ==
    /\ IsPending(i, "sendMessage")
    /\ Settled(i)
    /\ IF data.success THEN OnChatSuccess(data) ELSE Say(ChatFailedText)
    /\ UNCHANGED timers

(* sendMessage's catch block *)
ChatReject(i) ==
    /\ IsPending(i, "sendMessage")
    /\ Settled(i)
    /\ Say(ChatThrewText)
    /\ UNCHANGED timers

(* handleLeadInput after the forwarded question's await *)
ForwardResolve(i, data) ==
    /\ IsPending(i, "handleLeadInput")
    /\ Settled(i)
    /\ IF data.success THEN OnChatSuccess(data) ELSE SayNothing
    /\ UNCHANGED timers

(* handleLeadInput's catch block *)
ForwardReject(i) ==
    /\ IsPending(i, "handleLeadInput")
    /\ Settled(i)
    /\ Say(ForwardThrewText)
    /\ UNCHANGED timers

(* Mutant: the success branch deactivates but keeps the fields *)
OnLeadSuccessKeepsData(data) ==
    /\ emitted' = <<BotMessage(data.message)>>
    /\ timers' = IF data.has_contact_info THEN timers + 1 ELSE timers
    /\ leadCollectionMode' = FALSE
    /\ UNCHANGED <<leadData, conversationHistory>>

(* submitLead's success branch *)
OnLeadSuccess(data) ==
    /\ emitted' = <<BotMessage(data.message)>>
    /\ timers' = IF data.has_contact_info THEN timers + 1 ELSE timers
    /\ leadCollectionMode' = FALSE
    /\ leadData' = EmptyData
    /\ UNCHANGED conversationHistory

(* submitLead's branch for success = false *)
OnLeadFailure ==
    /\ Say(LeadFailedText)
    /\ UNCHANGED timers

(* submitLead after await fetch / await response.json() *)
LeadResolve(i, data) ==
    /\ IsPending(i, "submitLead")
    /\ Settled(i)
    /\ IF data.success THEN OnLeadSuccess(data) ELSE OnLeadFailure

(* submitLead's catch block *)
LeadReject(i) ==
    /\ IsPending(i, "submitLead")
    /\ Settled(i)
    /\ Say(LeadThrewText)
    /\ UNCHANGED timers

(* The setTimeout callback of submitLead *)
ContactTimer ==
    /\ timers > 0
    /\ timers' = timers - 1
    /\ emitted' = <<BotMessage(ContactText(ContactInfo))>>
    /\ UNCHANGED <<leadCollectionMode, leadData, conversationHistory, typing,
                   pending, fetches, scenario>>
    /\ UNCHANGED embedVars

Next ==
    \/ \E raw \in Inputs :
          /\ Len(conversationHistory) < MaxHistory
          /\ SendMessage(raw)
          /\ fetches' <= MaxFetches
          /\ Len(pending') <= MaxPending
    \/ \E i \in Slots, data \in ChatResponses : ChatResolve(i, data)
    \/ \E i \in Slots : ChatReject(i)
    \/ \E i \in Slots, data \in ChatResponses : ForwardResolve(i, data)
    \/ \E i \in Slots : ForwardReject(i)
    \/ \E i \in Slots, data \in LeadResponses : LeadResolve(i, data)
    \/ \E i \in Slots : LeadReject(i)
    \/ ContactTimer

Spec == Init /\ [][Next]_vars

(* The widget behind a host that accepts no input while a request is in     *)
(* flight: every input is fully processed before the next one is typed.      *)
NextSequential ==
    \/ \E raw \in ScenarioInputs :
          /\ Len(pending) = 0
          /\ Len(conversationHistory) < MaxSequentialHistory
          /\ SendMessage(raw)
          /\ fetches' <= MaxSequentialFetches
    \/ \E i \in Slots, data \in ChatResponses : ChatResolve(i, data)
    \/ \E i \in Slots : ChatReject(i)
    \/ \E i \in Slots, data \in ChatResponses : ForwardResolve(i, data)
    \/ \E i \in Slots : ForwardReject(i)
    \/ \E i \in Slots, data \in LeadResponses : LeadResolve(i, data)
    \/ \E i \in Slots : LeadReject(i)
    \/ ContactTimer

SpecSequential == Init /\ [][NextSequential]_vars

(* The same host, with a user who types the tokens in other casings *)
NextTokens ==
    \/ \E raw \in TokenInputs :
          /\ Len(pending) = 0
          /\ Len(conversationHistory) < MaxHistory
          /\ SendMessage(raw)
          /\ fetches' <= MaxFetches
    \/ \E i \in Slots, data \in ChatResponses : ChatResolve(i, data)
    \/ \E i \in Slots : ChatReject(i)
    \/ \E i \in Slots, data \in ChatResponses : ForwardResolve(i, data)
    \/ \E i \in Slots : ForwardReject(i)
    \/ \E i \in Slots, data \in LeadResponses : LeadResolve(i, data)
    \/ \E i \in Slots : LeadReject(i)
    \/ ContactTimer

SpecTokens == Init /\ [][NextTokens]_vars

-----------------------------------------------------------------------------
(* The loader, embed.js *)

Null == "null"                    \* JavaScript null

(* The src of the script element the loader finds as its own: with and       *)
(* without a client_id, with an empty one, and an inline copy (src = "")     *)
EmbedScripts ==
    { "https://cdn.example/static/embed.js?client_id=demo",
      "https://cdn.example/static/embed.js?v=2&client_id=",
      "https://cdn.example/static/embed.js",
      "" }

(* The first index at or after from where sub occurs in s, or 0 *)
IndexFrom(s, sub, from) ==
    LET hits == { i \in from..(Len(s) - Len(sub) + 1) : SubSeq(s, i, i + Len(sub) - 1) = sub }
    IN  IF hits = {} THEN 0 ELSE CHOOSE i \in hits : \A j \in hits : i <= j

(* new URL(src) throws unless src is an absolute URL *)
ParsesAsUrl(src) == IndexFrom(src, "://", 1) > 1

(* url.origin: scheme and host *)
origin(src) ==
    LET host == IndexFrom(src, "://", 1) + 3
        stops == { i \in host..Len(src) : CharAt(src, i) \in {"/", "?", "#"} }
        stop == IF stops = {} THEN Len(src) + 1 ELSE CHOOSE i \in stops : \A j \in stops : i <= j
    IN  SubSeq(src, 1, stop - 1)

(* url.searchParams.get(name) *)
searchParamsGet(src, name) ==
    LET q == IndexFrom(src, "?", 1)
        query == IF q = 0 THEN "" ELSE SubSeq(src, q + 1, Len(src))
        at == IndexFrom("&" \o query, "&" \o name \o "=", 1)
        from == at + Len(name) + 1
        amp == IndexFrom(query, "&", from)
    IN  IF at = 0 THEN Null
        ELSE SubSeq(query, from, IF amp = 0 THEN Len(query) ELSE amp - 1)

(* url.searchParams.get('client_id') || 'default' *)
clientIdOf(src) ==
    LET given == searchParamsGet(src, "client_id")
    IN  IF given \in {Null, ""} THEN "default" ELSE given

(* console.error messages of embed.js *)
ScriptNotFound == "Chatbot: Could not find embed script"
WidgetNotFound == "ChatbotWidget not found after script load"
WidgetLoadFailed == "Failed to load chatbot widget script"

(* The closure of one execution: clientId and apiUrl *)
Closure(src) == [clientId |-> clientIdOf(src), apiUrl |-> origin(src)]

(* The page before any loader ran; the widget is not in use *)
InitEmbed ==
    /\ leadCollectionMode = FALSE
    /\ leadData = EmptyData
    /\ conversationHistory = <<>>
    /\ emitted = <<>>
    /\ typing = 0
    /\ pending = <<>>
    /\ timers = 0
    /\ fetches = 0
    /\ scenario = 0
    /\ embedLoaded = FALSE
    /\ readyState \in {"loading", "complete"}
    /\ listeners = <<>>
    /\ containers = 0
    /\ loading = <<>>
    /\ initCalls = <<>>
    /\ executions = 0
    /\ warnings = 0
    /\ errors = <<>>

(* initChatbot(): the container, the stylesheet and the widget.js element *)
initChatbot(closures) ==
    /\ containers' = containers + Len(closures)
    /\ loading' = loading \o closures

(* Mutant: the flag is set only once the script element has been found *)
FlagAfterLookup(tag) == tag # Null

(* window.ChatbotEmbedLoaded = true, before the script element is looked up *)
FlagBeforeLookup(tag) == TRUE

(* One execution of embed.js; tag is the src of the script element it finds  *)
(* as its own, or Null when document.currentScript and the querySelector     *)
(* both give nothing.                                                        *)
ExecuteEmbed(tag) ==
    /\ executions' = executions + 1
    /\ UNCHANGED <<readyState, initCalls>>
    /\ IF embedLoaded
       THEN /\ warnings' = warnings + 1
            /\ UNCHANGED <<embedLoaded, listeners, containers, loading, errors>>
       ELSE /\ embedLoaded' = FlagBeforeLookup(tag)
            /\ UNCHANGED warnings
            /\ IF tag = Null
               THEN /\ errors' = Append(errors, ScriptNotFound)
                    /\ UNCHANGED <<listeners, containers, loading>>
               ELSE IF ~ParsesAsUrl(tag)
               THEN UNCHANGED <<listeners, containers, loading, errors>>   \* new URL throws
               ELSE IF readyState = "loading"
               THEN /\ listeners' = Append(listeners, Closure(tag))
                    /\ UNCHANGED <<containers, loading, errors>>
               ELSE /\ initChatbot(<<Closure(tag)>>)
                    /\ UNCHANGED <<listeners, errors>>

(* DOMContentLoaded: every registered listener runs initChatbot *)
DOMContentLoaded ==
    /\ readyState = "loading"
    /\ readyState' = "complete"
    /\ initChatbot(listeners)
    /\ UNCHANGED <<embedLoaded, listeners, initCalls, executions, warnings, errors>>

(* script.onload; present: window.ChatbotWidget is defined *)
ScriptOnload(i, present) ==
    /\ i \in 1..Len(loading)
    /\ loading' = Remove(loading, i)
    /\ IF present
       THEN /\ initCalls' = Append(initCalls, loading[i])
            /\ UNCHANGED errors
       ELSE /\ errors' = Append(errors, WidgetNotFound)
            /\ UNCHANGED initCalls
    /\ UNCHANGED <<embedLoaded, readyState, listeners, containers, executions, warnings>>

(* script.onerror *)
ScriptOnerror(i) ==
    /\ i \in 1..Len(loading)
    /\ loading' = Remove(loading, i)
    /\ errors' = Append(errors, WidgetLoadFailed)
    /\ UNCHANGED <<embedLoaded, readyState, listeners, containers, initCalls,
                   executions, warnings>>

NextEmbed ==
    \/ \E tag \in EmbedScripts \cup {Null} :
          /\ executions < MaxExecutions
          /\ ExecuteEmbed(tag)
          /\ UNCHANGED widgetVars
    \/ DOMContentLoaded /\ UNCHANGED widgetVars
    \/ \E i \in 1..Len(loading), present \in BOOLEAN :
          ScriptOnload(i, present) /\ UNCHANGED widgetVars
    \/ \E i \in 1..Len(loading) : ScriptOnerror(i) /\ UNCHANGED widgetVars

SpecEmbed == InitEmbed /\ [][NextEmbed]_vars

-----------------------------------------------------------------------------
(* Vocabulary of the properties *)

CancelWords == {"cancel", "nevermind", "back"}
CancelOrSkipWords == CancelWords \cup {"skip"}
QuestionWords == {"what", "how", "when", "where", "why", "who", "can", "do you", "tell me", "?"}

Normalized(text) == toLowerCase(trim(text))

(* The step is a user input: sendMessage showed the typed text *)
Typed ==
    /\ conversationHistory' # conversationHistory
    /\ emitted' # <<>>
    /\ emitted'[1].cls = "user"

TypedText == emitted'[1].text

IsBot(m) == m.cls = "bot"
BotTexts(shown) ==
    LET bots == SelectSeq(shown, IsBot) IN [i \in 1..Len(bots) |-> bots[i].text]

Issued == SubSeq(pending', Len(pending) + 1, Len(pending'))   \* requests the step started
NoRequest == Len(pending') <= Len(pending) /\ fetches' = fetches

Stored(d, f) == f \in DOMAIN d
AtStep(d, f) ==
    CASE f = "name" -> ~Stored(d, "name")
      [] f = "email" -> Stored(d, "name") /\ ~Stored(d, "email")
      [] f = "phone" -> Stored(d, "name") /\ Stored(d, "email") /\ ~Stored(d, "phone")
      [] f = "company" -> /\ Stored(d, "name") /\ Stored(d, "email") /\ Stored(d, "phone")
                          /\ ~Stored(d, "company")
      [] f = "message" -> /\ Stored(d, "name") /\ Stored(d, "email") /\ Stored(d, "phone")
                          /\ Stored(d, "company")

(* local@domain.tld: no white space, one "@" after a non-empty local part,   *)
(* and a dot inside what follows it, with text on both sides.                *)
MatchesEmailPattern(text) ==
    /\ \A k \in 1..Len(text) : ~IsSpace(CharAt(text, k))
    /\ Cardinality({k \in 1..Len(text) : CharAt(text, k) = "@"}) = 1
    /\ LET at == CHOOSE k \in 1..Len(text) : CharAt(text, k) = "@"
       IN  /\ at > 1
           /\ \E dot \in (at + 2)..(Len(text) - 1) : CharAt(text, dot) = "."

-----------------------------------------------------------------------------
(* C1: a chat answer with success = true and trigger_lead_collection = true, *)
(* to sendMessage's request or to the forwarded question, leaves the session *)
(* active; and in an active session a non-empty input goes to                *)
(* handleLeadInput: sendMessage itself sends no /api/chat request.           *)
TriggerArrives ==
    \E i \in Slots, data \in ChatResponses :
        /\ data.success /\ data.trigger_lead_collection
        /\ ChatResolve(i, data) \/ ForwardResolve(i, data)

C2_SkipSkipsField ==
    [][ (Typed /\ leadCollectionMode /\ Normalized(TypedText) = "skip") =>
          /\ AtStep(leadData, "phone") =>
                /\ leadCollectionMode'
                /\ leadData' = With(leadData, "phone", "skipped")
          /\ AtStep(leadData, "company") =>
                /\ leadCollectionMode'
                /\ leadData' = With(leadData, "company", "skipped")
          /\ AtStep(leadData, "message") =>
                /\ leadCollectionMode'
                /\ leadData' = With(leadData, "message", "")
                /\ Len(Issued) = 1 /\ Issued[1].url = "/api/lead" ]_vars

(* C3: Scenario A.  The fifth input of the scenario starts exactly one       *)
(* /api/lead request, with name "Jane Doe", email "jane@x.com", phone "",    *)
(* company "Acme" and message "".                                            *)
C3_ScenarioA ==
    [][ (scenario = 4 /\ scenario' = 5) =>
          /\ Len(Issued) = 1
          /\ Issued[1].url = "/api/lead"
          /\ Issued[1].body.name = "Jane Doe"
          /\ Issued[1].body.email = "jane@x.com"
          /\ Issued[1].body.phone = ""
          /\ Issued[1].body.company = "Acme"
          /\ Issued[1].body.message = "" ]_vars

(* C4: in an active session cancel, nevermind and back (trimmed, in any      *)
(* casing) at any step, and skip as well at the name and email steps,        *)
(* deactivate the session, clear the fields, emit the cancellation           *)
(* acknowledgment and nothing else, and start no request.                    *)
Cancels(d, word) ==
    \/ word \in CancelWords
    \/ word \in CancelOrSkipWords /\ (AtStep(d, "name") \/ AtStep(d, "email"))

C4_Cancel ==
    [][ (Typed /\ leadCollectionMode /\ Cancels(leadData, Normalized(TypedText))) =>
          /\ ~leadCollectionMode'
          /\ leadData' = EmptyData
          /\ BotTexts(emitted') = <<CancelAck>>
          /\ NoRequest ]_vars

(* A session cancelled by "back" typed in another casing *)
C4_Witness ==
    /\ ~leadCollectionMode
    /\ Len(emitted) = 2
    /\ emitted[1].cls = "user" /\ emitted[1].text = "BACK"
    /\ emitted[2] = BotMessage(CancelAck)
    /\ leadData = EmptyData
    /\ scenario = 0
    /\ Len(conversationHistory) >= 3

(* C5: a failed submission (success = false, or the request throws) emits   *)
(* the failure message, leaves the session inactive with no fields, and is   *)
(* not retried: the next input is ordinary chat and starts no /api/lead      *)
(* request.                                                                  *)
LeadFails ==
    \/ \E i \in Slots, data \in LeadResponses : ~data.success /\ LeadResolve(i, data)
    \/ \E i \in Slots : LeadReject(i)

AfterLeadFailure == BotTexts(emitted) \in {<<LeadFailedText>>, <<LeadThrewText>>}

C5_FailureDeactivates ==
    [][ /\ LeadFails =>
              /\ BotTexts(emitted') \in {<<LeadFailedText>>, <<LeadThrewText>>}
              /\ ~leadCollectionMode'
              /\ leadData' = EmptyData
        /\ (Typed /\ AfterLeadFailure) =>
              \A k \in 1..Len(Issued) : Issued[k].url # "/api/lead" ]_vars

(* C6: at most one request, chat or lead, is outstanding at any time *)
C6_OneOutstanding == Len(pending) <= 1

(* C7: in an active session with no name, an input that is no cancellation   *)
(* token and contains a question indicator is not stored as the name: the    *)
(* session is deactivated, the fields are cleared and the text as typed is   *)
(* sent in one /api/chat request.                                            *)
ContainsQuestionWord(text) == \E w \in QuestionWords : includes(toLowerCase(text), w)

C7_QuestionAborts ==
    [][ ( /\ Typed /\ leadCollectionMode /\ ~Stored(leadData, "name")
          /\ Normalized(TypedText) \notin CancelOrSkipWords
          /\ ContainsQuestionWord(TypedText) ) =>
          /\ ~leadCollectionMode'
          /\ leadData' = EmptyData
          /\ Len(Issued) = 1
          /\ Issued[1].url = "/api/chat"
          /\ Issued[1].body.message = TypedText ]_vars

(* The question is in flight to /api/chat and the session is inactive *)
C7_Witness ==
    /\ ~leadCollectionMode
    /\ leadData = EmptyData
    /\ Len(pending) = 1
    /\ pending[1].origin = "handleLeadInput"
    /\ pending[1].body.message = "What are your hours?"
    /\ fetches = 2

(* C8: at the email step an input that is no cancellation token and does not *)
(* match local@domain.tld leaves the session active with its fields as they  *)
(* were, emits the re-prompt and nothing else, and starts no request.        *)
C8_InvalidEmail ==
    [][ ( /\ Typed /\ leadCollectionMode /\ AtStep(leadData, "email")
          /\ Normalized(TypedText) \notin CancelOrSkipWords
          /\ ~MatchesEmailPattern(TypedText) ) =>
          /\ leadCollectionMode'
          /\ leadData' = leadData
          /\ BotTexts(emitted') = <<EmailRetryPrompt>>
          /\ NoRequest ]_vars

(* An address without a dot after the "@" was rejected at the email step *)
C8_Witness ==
    /\ leadCollectionMode
    /\ AtStep(leadData, "email")
    /\ emitted = <<UserMessage("j@x"), BotMessage(EmailRetryPrompt)>>

(* C9: at the email step an input that matches the pattern is stored as      *)
(* typed and the session is at the phone step; there a non-cancelling input  *)
(* is stored as the phone.                                                   *)
C9_ValidEmail ==
    [][ /\ ( /\ Typed /\ leadCollectionMode /\ AtStep(leadData, "email")
             /\ MatchesEmailPattern(TypedText) ) =>
             /\ leadCollectionMode'
             /\ leadData' = With(leadData, "email", TypedText)
             /\ AtStep(leadData', "phone")
        /\ ( /\ Typed /\ leadCollectionMode /\ AtStep(leadData, "phone")
             /\ Normalized(TypedText) \notin CancelOrSkipWords ) =>
             /\ leadCollectionMode'
             /\ leadData' = With(leadData, "phone", TypedText) ]_vars

(* A mixed-case address was stored and the next input became the phone *)
C9_Witness ==
    /\ leadCollectionMode
    /\ Stored(leadData, "phone")
    /\ leadData["email"] = "Jo@X.io"
    /\ ~Stored(leadData, "company")

(* C10: when /api/lead answers success = true the step emits the server's    *)
(* confirmation and nothing else, deactivates the session and clears the     *)
(* fields, and schedules one contact-info message if and only if the answer  *)
(* carries contact_info; a contact-info message is emitted only by a         *)
(* scheduled callback, one message per callback.                             *)
LeadSucceeds(data) == \E i \in Slots : data.success /\ LeadResolve(i, data)

C10_Success ==
    [][ /\ \A data \in LeadResponses :
              LeadSucceeds(data) =>
                  /\ BotTexts(emitted') = <<data.message>>
                  /\ ~leadCollectionMode'
                  /\ leadData' = EmptyData
                  /\ timers' = timers + (IF data.has_contact_info THEN 1 ELSE 0)
        /\ timers' > timers => \E data \in LeadResponses :
                                   data.has_contact_info /\ LeadSucceeds(data)
        /\ timers' < timers =>
              /\ timers' = timers - 1
              /\ emitted' = <<BotMessage(ContactText(ContactInfo))>>
        /\ BotMessage(ContactText(ContactInfo)) \in {emitted'[k] : k \in 1..Len(emitted')}
              => timers' = timers - 1 ]_vars

(* The contact-info message shown after a confirmed submission *)
C10_Witness ==
    /\ emitted = <<BotMessage(ContactText(ContactInfo))>>
    /\ timers = 0
    /\ ~leadCollectionMode
    /\ leadData = EmptyData
    /\ Len(pending) = 0

(* C11: every /api/lead request carries the client id, the stored name and   *)
(* email, phone and company as stored or "" when the stored value is         *)
(* "skipped" or absent, the stored message or "", and as                     *)
(* conversation_snippet the contents of the last five history entries (of    *)
(* all of them when there are fewer) in order, joined by " | ".              *)
RECURSIVE JoinedContents(_, _, _)
JoinedContents(h, lo, hi) ==
    IF lo > hi THEN ""
    ELSE IF lo = hi THEN h[lo].content
    ELSE JoinedContents(h, lo, hi - 1) \o " | " \o h[hi].content

LastFive(h) == JoinedContents(h, IF Len(h) > 5 THEN Len(h) - 4 ELSE 1, Len(h))

StoredOrEmpty(d, f) == IF Stored(d, f) /\ d[f] # "skipped" THEN d[f] ELSE ""

FieldOrder == <<"name", "email", "phone", "company", "message">>

InOrder(d) ==
    \A k \in 1..Len(FieldOrder) :
        Stored(d, FieldOrder[k]) => \A j \in 1..(k - 1) : Stored(d, FieldOrder[j])

KeepsFields(d, e) == \A f \in DOMAIN d : Stored(e, f) /\ e[f] = d[f]

SessionReset == ~leadCollectionMode' /\ leadData' = EmptyData

C12_FixedOrder ==
    [][ /\ leadCollectionMode' => InOrder(leadData')
        /\ (Typed /\ leadCollectionMode) =>
               KeepsFields(leadData, leadData') \/ SessionReset ]_vars

(* C13: when the forwarded request of a question abort fails, by an          *)
(* exception or by an answer with success = false, the step emits exactly    *)
(* one generic error message and the session is inactive with no fields.     *)
ForwardFails ==
    \/ \E i \in Slots, data \in ChatResponses : ~data.success /\ ForwardResolve(i, data)
    \/ \E i \in Slots : ForwardReject(i)

GenericErrors == {ChatFailedText, ChatThrewText, ForwardThrewText}

C13_ForwardFailure ==
    [][ ForwardFails =>
          /\ Len(emitted') = 1
          /\ IsBot(emitted'[1])
          /\ emitted'[1].text \in GenericErrors
          /\ ~leadCollectionMode'
          /\ leadData' = EmptyData ]_vars

(* C14: a triggering chat answer that carries an extracted e-mail starts the *)
(* session with that e-mail as its email field; the name typed next is       *)
(* stored and the phone is asked for; the input after the name is stored as  *)
(* the phone, whatever it looks like, and the email field keeps the          *)
(* pre-filled value.                                                         *)
TriggerWithEmail(data) ==
    /\ data.success /\ data.trigger_lead_collection /\ data.extracted_email # Undefined
    /\ \E i \in Slots : ChatResolve(i, data) \/ ForwardResolve(i, data)

Prefilled(d) == Stored(d, "email") /\ d["email"] = ExtractedEmail

ForwardAnswered ==
    \/ \E i \in Slots, data \in ChatResponses :
          ~(data.success /\ data.trigger_lead_collection) /\ ForwardResolve(i, data)
    \/ \E i \in Slots : ForwardReject(i)

C15_OneBotMessage ==
    [][ /\ ( /\ Typed /\ leadCollectionMode
             /\ Normalized(TypedText) \notin CancelOrSkipWords
             /\ Len(Issued) = 0 ) =>
             Len(BotTexts(emitted')) = 1
        /\ ( /\ Typed /\ leadCollectionMode
             /\ Len(Issued) = 1 /\ Issued[1].origin = "handleLeadInput" ) =>
             Len(BotTexts(emitted')) = 0
        /\ ForwardAnswered => Len(BotTexts(emitted')) = 1 ]_vars

(* C16: the session is inactive with no field stored in the initial state,   *)
(* and from such a state only a chat answer with success = true and          *)
(* trigger_lead_collection = true leads to a state where the session is      *)
(* active or a field is stored: no user input and no other answer does.      *)
InactiveEmpty == ~leadCollectionMode /\ leadData = EmptyData

C16_InactiveUntilTrigger ==
    /\ InactiveEmpty
    /\ [][ (InactiveEmpty /\ ~TriggerArrives) => InactiveEmpty' ]_vars

(* Two inputs, each answered with an ordinary reply, and no other request:   *)
(* the session is still inactive                                             *)
C16_Witness ==
    /\ InactiveEmpty
    /\ fetches = 2
    /\ Len(pending) = 0
    /\ Len(conversationHistory) = 4
    /\ conversationHistory[2] = BotEntry(ReplyText)
    /\ conversationHistory[4] = BotEntry(ReplyText)

(* C17: a /api/lead request is sent only by an input at the message step of  *)
(* an active session: name is then a non-empty text, email is stored, phone  *)
(* and company are each stored (as typed or as "skipped"), and an email that *)
(* was typed by the user, not pre-filled, matches the e-mail pattern.        *)
SendsLead == \E k \in 1..Len(Issued) : Issued[k].url = "/api/lead"

C17_SubmitOnlyWhenComplete ==
    [][ SendsLead =>
          /\ Typed
          /\ leadCollectionMode
          /\ AtStep(leadData, "message")
          /\ leadData["name"] # "" /\ leadData["name"] # Undefined
          /\ leadData["phone"] # "" /\ leadData["company"] # ""
          /\ leadData["email"] # ExtractedEmail => MatchesEmailPattern(leadData["email"])
          /\ KeepsFields([f \in {"name", "email", "phone", "company"} |-> leadData[f]],
                         leadData') ]_vars

(* A lead in flight whose e-mail was typed by the user *)
C17_Witness ==
    /\ leadCollectionMode
    /\ Len(pending) = 1
    /\ pending[1].url = "/api/lead"
    /\ pending[1].body.email = "jane@x.com"
    /\ pending[1].body.name = "Jane Doe"
    /\ pending[1].body.company = "Acme"

(* C18: in an active session an input starts a /api/chat request only when   *)
(* no name is stored and the input contains a question indicator; once a     *)
(* name is stored, an input that contains a question indicator is taken as   *)
(* the value of the pending field, or rejected as an invalid e-mail: the     *)
(* session stays active and no /api/chat request is started.                 *)
SendsChat == \E k \in 1..Len(Issued) : Issued[k].url = "/api/chat"

TakenAsValue ==
    /\ leadCollectionMode'
    /\ ~SendsChat
    /\ \/ \E f \in {"email", "phone", "company"} :
              AtStep(leadData, f) /\ leadData' = With(leadData, f, TypedText)
       \/ AtStep(leadData, "message") /\ leadData' = With(leadData, "message", TypedText)
       \/ /\ AtStep(leadData, "email") /\ ~MatchesEmailPattern(TypedText)
          /\ leadData' = leadData
          /\ BotTexts(emitted') = <<EmailRetryPrompt>>

ChatOnlyForQuestionWithoutName ==
    (Typed /\ leadCollectionMode /\ SendsChat) =>
        ~Stored(leadData, "name") /\ ContainsQuestionWord(TypedText)

(* As stated: every input that contains a question indicator *)
C18_QuestionAfterName ==
    [][ /\ ChatOnlyForQuestionWithoutName
        /\ ( /\ Typed /\ leadCollectionMode /\ Stored(leadData, "name")
             /\ ContainsQuestionWord(TypedText) ) => TakenAsValue ]_vars

(* C18, amended: the same for every input that contains a question          *)
(* indicator and is not a cancellation token ("cancel" contains "can").      *)
C18_QuestionAfterNameUnlessCancel ==
    [][ /\ ChatOnlyForQuestionWithoutName
        /\ ( /\ Typed /\ leadCollectionMode /\ Stored(leadData, "name")
             /\ ContainsQuestionWord(TypedText)
             /\ Normalized(TypedText) \notin CancelWords ) => TakenAsValue ]_vars

(* A question typed at the phone step was stored as the phone *)
C18_Witness ==
    /\ leadCollectionMode
    /\ Stored(leadData, "name")
    /\ Stored(leadData, "phone") /\ leadData["phone"] = "Who?"
    /\ emitted = <<UserMessage("Who?"), BotMessage(CompanyPrompt)>>
    /\ Len(pending) = 0

(* C19: the conversation history only grows, and a user input adds exactly   *)
(* one entry to it, the text typed, whichever path handles the input; the    *)
(* history sent with a chat request is the history so extended.              *)
IsPrefix(h, g) == Len(h) <= Len(g) /\ SubSeq(g, 1, Len(h)) = h

C19_HistoryOncePerInput ==
    [][ /\ IsPrefix(conversationHistory, conversationHistory')
        /\ Typed =>
              /\ conversationHistory' = Append(conversationHistory, UserEntry(TypedText))
              /\ \A k \in 1..Len(Issued) :
                    Issued[k].url = "/api/chat" =>
                       Issued[k].body.context.conversation_history =
                          Append(conversationHistory, UserEntry(TypedText)) ]_vars

(* C20: in every reachable state, with or without requests in flight, an     *)
(* inactive session holds no field.                                          *)
C20_InactiveHoldsNothing == ~leadCollectionMode => leadData = EmptyData

(* A session that held fields was cancelled while an earlier chat request    *)
(* was still in flight                                                       *)
C20_Witness ==
    /\ ~leadCollectionMode
    /\ leadData = EmptyData
    /\ emitted = <<UserMessage("skip"), BotMessage(CancelAck)>>
    /\ Len(pending) = 1
    /\ pending[1].origin = "sendMessage"
    /\ Len(conversationHistory) = 4
    /\ conversationHistory[3] = UserEntry("jane@x.com")

(* C21: however often the loader is executed, at most one container is       *)
(* created, at most one widget.js element is loaded and ChatbotWidget.init   *)
(* is called at most once; an execution after the first changes nothing on   *)
(* the page (it only logs a warning), also when the first execution ended    *)
(* early for want of its script element.                                     *)
C21_SetUpOnce ==
    /\ [](containers <= 1 /\ Len(loading) <= 1 /\ Len(initCalls) <= 1)
    /\ [][ (executions >= 1 /\ executions' = executions + 1) =>
              UNCHANGED <<embedLoaded, readyState, listeners, containers, loading,
                          initCalls, errors>> ]_vars
    /\ [][ containers' # containers => containers' = 1 /\ Len(loading') = 1 ]_vars

(* The loader ran as often as the model lets it, and the widget was          *)
(* initialised once, with the client id of the first execution               *)
C21_Witness ==
    /\ executions = MaxExecutions
    /\ warnings = MaxExecutions - 1
    /\ containers = 1
    /\ loading = <<>>
    /\ initCalls = <<[clientId |-> "demo", apiUrl |-> "https://cdn.example"]>>

====
